---- MODULE Spec2Model ----
(***************************************************************************)
(* A model of the digle store of jneem/quilt (libjp/src/storage/digle.rs), *)
(* the ordered multimap it is built on (multimap/src/lib.rs) and the graph *)
(* algorithms of libjp/src/graph.rs.                                       *)
(***************************************************************************)
EXTENDS Integers, Sequences, FiniteSets, TLC

VARIABLES data, pre, last, start, log, undone, graph, order,
          outcome, mmap, pairs, serde

vars == <<data, pre, last, start, log, undone, graph, order,
          outcome, mmap, pairs, serde>>

(***************************************************************************)
(* Bounds.                                                                 *)
(***************************************************************************)
\* LineIds are (patch, line) pairs, totally ordered; the model uses 1..NumLines.
NumLines == 2
\* Longest sequence of primitives that is applied and then reversed.
MaxOps == 3
\* Nodes of the adjacency-list graphs given to top_sort / linear_order.
MaxNodes == 3
\* Edges pushed into such a graph.
MaxEdges == 4
\* Edges pushed into a graph that is then looked at through NodeFiltered.
MaxFilteredEdges == 3
\* Keys and values of the integer multimaps: 1..NumKeys and 1..NumVals.
NumKeys == 2
NumVals == 2

LineId == 1..NumLines

(***************************************************************************)
(* Edge: struct { dest, deleted } with derived Ord.  The derived order     *)
(* compares the fields in declaration order: dest first, then deleted      *)
(* (false < true).                                                         *)
(***************************************************************************)
Edge == [dest : LineId, deleted : BOOLEAN]

MkEdge(dst, del) == [dest |-> dst, deleted |-> del]

Edge_lt(e1, e2) ==
    \/ e1.dest < e2.dest
    \/ /\ e1.dest = e2.dest
       /\ ~e1.deleted
       /\ e2.deleted

(***************************************************************************)
(* MMap<K, V>: BTreeMap<K, BTreeSet<V>>.  A function whose domain is the   *)
(* set of keys bound in the underlying map.                                *)
(***************************************************************************)
MMap_new == <<>>

\* BTreeSet::iter over a set of edges: ascending in the order of Edge.
BTreeSet_iter(s) ==
    [i \in 1..Cardinality(s) |->
        CHOOSE x \in s : Cardinality({y \in s : Edge_lt(y, x)}) = i - 1]

MMap_get(m, key) ==
    BTreeSet_iter(IF key \in DOMAIN m THEN m[key] ELSE {})

\* Mutant of MMap_insert: the new value replaces the values of the key.
MMap_insert_overwrites(m, key, val) ==
    [k \in DOMAIN m \cup {key} |-> IF k = key THEN {val} ELSE m[k]]

MMap_insert(m, key, val) ==
    [k \in DOMAIN m \cup {key} |->
        IF k = key
        THEN (IF key \in DOMAIN m THEN m[key] ELSE {}) \cup {val}
        ELSE m[k]]

\* Mutant of MMap_remove: a key whose set has emptied stays bound.
MMap_remove_keeps_key(m, key, val) ==
    IF key \in DOMAIN m THEN [m EXCEPT ![key] = @ \ {val}] ELSE m

\* The map after remove(key, val); the key is dropped when its set empties.
MMap_remove(m, key, val) ==
    IF key \in DOMAIN m
    THEN LET set == m[key] \ {val}
         IN  IF set = {}
             THEN [k \in DOMAIN m \ {key} |-> m[k]]
             ELSE [m EXCEPT ![key] = set]
    ELSE m

MMap_contains(m, key, val) ==
    key \in DOMAIN m /\ val \in m[key]

\* iter(): the (k, v) pairs of the map, as a set.
MMap_iter(m) ==
    UNION {{<<k, v>> : v \in m[k]} : k \in DOMAIN m}

(***************************************************************************)
(* DigleData and the read view Digle.                                      *)
(***************************************************************************)
DigleData_new ==
    [lines |-> {}, deleted_lines |-> {}, edges |-> MMap_new, back_edges |-> MMap_new]

RECURSIVE take_while_live(_)
take_while_live(s) ==
    IF s = <<>> \/ Head(s).deleted
    THEN <<>>
    ELSE <<Head(s)>> \o take_while_live(Tail(s))

out_edges(d, line) == take_while_live(MMap_get(d.edges, line))

all_out_edges(d, line) == MMap_get(d.edges, line)

in_edges(d, line) == take_while_live(MMap_get(d.back_edges, line))

all_in_edges(d, line) == MMap_get(d.back_edges, line)

line_exists(d, line_id) == line_id \in d.lines \/ line_id \in d.deleted_lines

(***************************************************************************)
(* DigleMut: the six primitives, as functions from DigleData to DigleData. *)
(* The assertions of the code are the guards of the actions below.         *)
(***************************************************************************)
add_node(d, id) == [d EXCEPT !.lines = @ \cup {id}]

unadd_node(d, id) == [d EXCEPT !.lines = @ \ {id}]

\* Mutant of mark_back_edge: the edge with the old flag is not removed.
mark_back_edge_keeps_old(d, src, dst, delete) ==
    [d EXCEPT !.back_edges = MMap_insert(@, src, MkEdge(dst, delete))]

mark_back_edge(d, src, dst, delete) ==
    [d EXCEPT !.back_edges =
        MMap_insert(MMap_remove(@, src, MkEdge(dst, ~delete)), src, MkEdge(dst, delete))]

\* Mutant of mark_edge: the forward edge keeps its old flag.
mark_edge_stale(d, src, dst, delete) == d

mark_edge(d, src, dst, delete) ==
    [d EXCEPT !.edges =
        MMap_insert(MMap_remove(@, src, MkEdge(dst, ~delete)), src, MkEdge(dst, delete))]

\* for o in out_neighbors { self.mark_back_edge(o, id, delete) }
RECURSIVE mark_back_edges(_, _, _, _)
mark_back_edges(d, out_neighbors, id, delete) ==
    IF out_neighbors = <<>>
    THEN d
    ELSE mark_back_edges(mark_back_edge(d, Head(out_neighbors).dest, id, delete),
                         Tail(out_neighbors), id, delete)

\* for i in in_neighbors { self.mark_edge(i, id, delete) }
RECURSIVE mark_edges(_, _, _, _)
mark_edges(d, in_neighbors, id, delete) ==
    IF in_neighbors = <<>>
    THEN d
    ELSE mark_edges(mark_edge(d, Head(in_neighbors).dest, id, delete),
                    Tail(in_neighbors), id, delete)

\* Mutant of delete_node: the line is dropped instead of tombstoned.
delete_node_drops_line(d, id) ==
    LET d1 == [d EXCEPT !.lines = @ \ {id}]
        out_neighbors == all_out_edges(d1, id)
        in_neighbors == all_in_edges(d1, id)
    IN  mark_edges(mark_back_edges(d1, out_neighbors, id, TRUE), in_neighbors, id, TRUE)

\* Mutant of delete_node: the line is not taken out of lines.
delete_node_keeps_line(d, id) ==
    LET d1 == [d EXCEPT !.deleted_lines = @ \cup {id}]
        out_neighbors == all_out_edges(d1, id)
        in_neighbors == all_in_edges(d1, id)
    IN  mark_edges(mark_back_edges(d1, out_neighbors, id, TRUE), in_neighbors, id, TRUE)

\* Mutant of delete_node: the edges out of the deleted node are flagged too.
delete_node_marks_own_edges(d, id) ==
    LET d1 == [d EXCEPT !.lines = @ \ {id}, !.deleted_lines = @ \cup {id}]
        out_neighbors == all_out_edges(d1, id)
        in_neighbors == all_in_edges(d1, id)
        d2 == mark_edges(mark_back_edges(d1, out_neighbors, id, TRUE), in_neighbors, id, TRUE)
    IN  [d2 EXCEPT !.edges =
            [s \in DOMAIN d2.edges |->
                IF s = id
                THEN {MkEdge(x.dest, TRUE) : x \in d2.edges[s]}
                ELSE d2.edges[s]]]

delete_node(d, id) ==
    LET d1 == [d EXCEPT !.lines = @ \ {id}, !.deleted_lines = @ \cup {id}]
        out_neighbors == all_out_edges(d1, id)
        in_neighbors == all_in_edges(d1, id)
    IN  mark_edges(mark_back_edges(d1, out_neighbors, id, TRUE), in_neighbors, id, TRUE)

\* Mutant of undelete_node: the forward edges of the in-neighbors are not marked.
undelete_node_skips_in_neighbors(d, id) ==
    LET d1 == [d EXCEPT !.deleted_lines = @ \ {id}, !.lines = @ \cup {id}]
        out_neighbors == all_out_edges(d1, id)
    IN  mark_back_edges(d1, out_neighbors, id, FALSE)

undelete_node(d, id) ==
    LET d1 == [d EXCEPT !.deleted_lines = @ \ {id}, !.lines = @ \cup {id}]
        out_neighbors == all_out_edges(d1, id)
        in_neighbors == all_in_edges(d1, id)
    IN  mark_edges(mark_back_edges(d1, out_neighbors, id, FALSE), in_neighbors, id, FALSE)

\* Mutant of add_edge: the back edge carries the flag of the wrong endpoint.
add_edge_swapped_flag(d, from, to) ==
    LET to_deleted == to \notin d.lines
    IN  [d EXCEPT !.edges = MMap_insert(@, from, MkEdge(to, to_deleted)),
                  !.back_edges = MMap_insert(@, to, MkEdge(from, to_deleted))]

add_edge(d, from, to) ==
    LET from_deleted == from \notin d.lines
        to_deleted == to \notin d.lines
    IN  [d EXCEPT !.edges = MMap_insert(@, from, MkEdge(to, to_deleted)),
                  !.back_edges = MMap_insert(@, to, MkEdge(from, from_deleted))]

\* Mutant of unadd_edge: the back edge is left behind.
unadd_edge_forward_only(d, from, to) ==
    LET to_deleted == to \notin d.lines
    IN  [d EXCEPT !.edges = MMap_remove(@, from, MkEdge(to, to_deleted))]

unadd_edge(d, from, to) ==
    LET from_deleted == from \notin d.lines
        to_deleted == to \notin d.lines
    IN  [d EXCEPT !.edges = MMap_remove(@, from, MkEdge(to, to_deleted)),
                  !.back_edges = MMap_remove(@, to, MkEdge(from, from_deleted))]

\* The lines with an edge to or from id, in either multimap.
has_incident_edges(d, id) ==
    \/ id \in DOMAIN d.edges
    \/ id \in DOMAIN d.back_edges
    \/ \E k \in DOMAIN d.edges : \E e \in d.edges[k] : e.dest = id
    \/ \E k \in DOMAIN d.back_edges : \E e \in d.back_edges[k] : e.dest = id

\* The preconditions of the primitives: the assertion of the code, and what the
\* caller is to ensure besides (add_node: id not known; unadd_node: the
\* incident edges are gone).
add_node_pre(d, id) == ~line_exists(d, id)

unadd_node_pre(d, id) == id \in d.lines /\ ~has_incident_edges(d, id)

delete_node_pre(d, id) == id \in d.lines

undelete_node_pre(d, id) == id \in d.deleted_lines

\* assert!(!from_deleted || deleted_lines.contains(from)), and the same for to
edge_pre(d, from, to) == line_exists(d, from) /\ line_exists(d, to)

(***************************************************************************)
(* The digle under its primitives, each called with its stated             *)
(* precondition.  pre and last record the state before the latest call and *)
(* the call itself.                                                        *)
(***************************************************************************)
Call(op, a, b) == [op |-> op, a |-> a, b |-> b]

\* How the latest call ended: it returned a value, or an assert!() failed.
NotCalled == [tag |-> "none"]

Returned(v) == [tag |-> "returned", value |-> v]

Panicked == [tag |-> "panicked"]

\* The variables of the multimap specifications, when they are not in use.
NoMMap ==
    /\ outcome = NotCalled
    /\ mmap = MMap_new
    /\ pairs = {}
    /\ serde = [phase |-> "idle"]

Idle ==
    /\ start = DigleData_new
    /\ log = <<>>
    /\ undone = 0
    /\ graph = <<>>
    /\ order = [tag |-> "unset"]
    /\ NoMMap

Init ==
    /\ data = DigleData_new
    /\ pre = DigleData_new
    /\ last = Call("new", 0, 0)
    /\ Idle

Step(op, a, b, d) ==
    /\ pre' = data
    /\ last' = Call(op, a, b)
    /\ data' = d
    /\ UNCHANGED <<start, log, undone, graph, order, outcome, mmap, pairs, serde>>

AddNode ==
    \E id \in LineId :
        /\ add_node_pre(data, id)
        /\ Step("add_node", id, id, add_node(data, id))

UnaddNode ==
    \E id \in LineId :
        /\ unadd_node_pre(data, id)
        /\ Step("unadd_node", id, id, unadd_node(data, id))

DeleteNode ==
    \E id \in LineId :
        /\ delete_node_pre(data, id)
        /\ Step("delete_node", id, id, delete_node(data, id))

UndeleteNode ==
    \E id \in LineId :
        /\ undelete_node_pre(data, id)
        /\ Step("undelete_node", id, id, undelete_node(data, id))

AddEdge ==
    \E from \in LineId, to \in LineId :
        /\ edge_pre(data, from, to)
        /\ Step("add_edge", from, to, add_edge(data, from, to))

UnaddEdge ==
    \E from \in LineId, to \in LineId :
        /\ edge_pre(data, from, to)
        /\ Step("unadd_edge", from, to, unadd_edge(data, from, to))

Next ==
    \/ AddNode
    \/ UnaddNode
    \/ DeleteNode
    \/ UndeleteNode
    \/ AddEdge
    \/ UnaddEdge

Spec == Init /\ [][Next]_vars

(***************************************************************************)
(* Properties of the digle store.                                          *)
(***************************************************************************)
Range(s) == {s[i] : i \in DOMAIN s}

Known(d) == d.lines \cup d.deleted_lines

HasEdge(d, u, v) == \E e \in Range(all_out_edges(d, u)) : e.dest = v

HasBackEdge(d, v, u) == \E e \in Range(all_in_edges(d, v)) : e.dest = u

\* C1: for every known line u, out_edges(u) yields exactly the edges of
\* all_out_edges(u) whose deleted flag is false, and in_edges(u) exactly the
\* edges of all_in_edges(u) whose deleted flag is false.
OutEdgesAreTheLiveEdges ==
    \A u \in Known(data) :
        /\ Range(out_edges(data, u)) = {e \in Range(all_out_edges(data, u)) : ~e.deleted}
        /\ Range(in_edges(data, u)) = {e \in Range(all_in_edges(data, u)) : ~e.deleted}

\* C2: the order on Edge puts every live edge before every deleted edge,
\* whatever their dest fields are: of two edges stored under one key, a live
\* one is less than a deleted one.
LiveEdgesSortFirst ==
    \A m \in {data.edges, data.back_edges} :
        \A k \in DOMAIN m :
            \A e1 \in m[k], e2 \in m[k] :
                (~e1.deleted /\ e2.deleted) => Edge_lt(e1, e2)

\* C4: after every primitive, lines and deleted_lines are disjoint.
LinesDisjoint == data.lines \cap data.deleted_lines = {}

LinesDisjointWitness ==
    /\ last.op = "delete_node"
    /\ data.lines # {}
    /\ last.a \in data.deleted_lines

\* C5: every forward edge (u, {dest = v, deleted = d}) has u and v known and
\* d true exactly when v is in deleted_lines; likewise every back edge with
\* respect to its dest.
EdgesFollowEndpoints ==
    \A m \in {data.edges, data.back_edges} :
        \A p \in MMap_iter(m) :
            /\ line_exists(data, p[1])
            /\ line_exists(data, p[2].dest)
            /\ p[2].deleted <=> (p[2].dest \in data.deleted_lines)

EdgesFollowEndpointsWitness ==
    /\ last.op \in {"delete_node", "undelete_node"}
    /\ \E p \in MMap_iter(data.edges) : p[2].deleted
    /\ \E p \in MMap_iter(data.edges) : ~p[2].deleted
    /\ \E p \in MMap_iter(data.back_edges) : p[2].deleted
    /\ pre.edges # data.edges

\* C6: edges and back_edges correspond one to one: edges[u] has an edge to v
\* iff back_edges[v] has an edge to u, there is exactly one such back edge (and
\* forward edge), and the back edge's deleted flag is (u \in deleted_lines).
EdgesMatchBackEdges ==
    \A u \in LineId, v \in LineId :
        LET fwd == {e \in Range(all_out_edges(data, u)) : e.dest = v}
            back == {e \in Range(all_in_edges(data, v)) : e.dest = u}
        IN  /\ (fwd # {}) <=> (back # {})
            /\ Cardinality(fwd) <= 1
            /\ Cardinality(back) <= 1
            /\ \A b \in back : b.deleted <=> (u \in data.deleted_lines)

EdgesMatchBackEdgesWitness ==
    /\ last.op = "unadd_edge"
    /\ HasEdge(pre, last.a, last.b)
    /\ ~HasEdge(data, last.a, last.b)
    /\ \E p \in MMap_iter(data.back_edges) : p[2].deleted

\* C7: undelete_node(id) after delete_node(id) restores the DigleData in all
\* four fields, and so does delete_node(id) after undelete_node(id).
DeleteUndeleteInverse ==
    /\ last.op = "delete_node" => undelete_node(data, last.a) = pre
    /\ last.op = "undelete_node" => delete_node(data, last.a) = pre

\* id has a self-loop and edges to and from a tombstoned line.
DeleteUndeleteInverseWitness ==
    /\ last.op = "delete_node"
    /\ HasEdge(pre, last.a, last.a)
    /\ \E v \in pre.deleted_lines : HasEdge(pre, last.a, v) /\ HasEdge(pre, v, last.a)
    /\ pre # data

\* C8 as stated: for every pair of known lines, unadd_edge after add_edge and
\* add_edge after unadd_edge restore the DigleData.
AddUnaddEdgeInverse ==
    /\ last.op = "add_edge" => unadd_edge(data, last.a, last.b) = pre
    /\ last.op = "unadd_edge" => add_edge(data, last.a, last.b) = pre

\* C8: unadd_edge(u, v) after add_edge(u, v) restores the DigleData when the
\* edge u -> v was not in it, and add_edge(u, v) after unadd_edge(u, v)
\* restores it when the edge was in it.
AddUnaddEdgeInverseOnChange ==
    /\ (last.op = "add_edge" /\ ~HasEdge(pre, last.a, last.b))
            => unadd_edge(data, last.a, last.b) = pre
    /\ (last.op = "unadd_edge" /\ HasEdge(pre, last.a, last.b))
            => add_edge(data, last.a, last.b) = pre

AddUnaddEdgeInverseWitness ==
    /\ last.op = "add_edge"
    /\ ~HasEdge(pre, last.a, last.b)
    /\ last.a \in data.deleted_lines
    /\ last.b \in data.lines
    /\ pre.edges # <<>>

NodeOps == {"add_node", "unadd_node", "delete_node", "undelete_node"}

EdgeOps == {"add_edge", "unadd_edge"}

Calls ==
    {Call(op, id, id) : op \in NodeOps, id \in LineId}
        \cup {Call(op, from, to) : op \in EdgeOps, from \in LineId, to \in LineId}

Requires(d, c) ==
    CASE c.op = "add_node" -> add_node_pre(d, c.a)
      [] c.op = "unadd_node" -> unadd_node_pre(d, c.a)
      [] c.op = "delete_node" -> delete_node_pre(d, c.a)
      [] c.op = "undelete_node" -> undelete_node_pre(d, c.a)
      [] c.op \in EdgeOps -> edge_pre(d, c.a, c.b)

Apply(d, c) ==
    CASE c.op = "add_node" -> add_node(d, c.a)
      [] c.op = "unadd_node" -> unadd_node(d, c.a)
      [] c.op = "delete_node" -> delete_node(d, c.a)
      [] c.op = "undelete_node" -> undelete_node(d, c.a)
      [] c.op = "add_edge" -> add_edge(d, c.a, c.b)
      [] c.op = "unadd_edge" -> unadd_edge(d, c.a, c.b)

InverseOp(op) ==
    CASE op = "add_node" -> "unadd_node"
      [] op = "unadd_node" -> "add_node"
      [] op = "delete_node" -> "undelete_node"
      [] op = "undelete_node" -> "delete_node"
      [] op = "add_edge" -> "unadd_edge"
      [] op = "unadd_edge" -> "add_edge"

\* add_edge of an edge that is absent, unadd_edge of one that is present.
Effective(d, c) ==
    CASE c.op = "add_edge" -> ~HasEdge(d, c.a, c.b)
      [] c.op = "unadd_edge" -> HasEdge(d, c.a, c.b)
      [] OTHER -> TRUE

\* DigleData the sequence may start from, each built by the primitives.
TwoLines == add_node(add_node(DigleData_new, 1), 2)

StartStates ==
    { DigleData_new,
      add_edge(add_node(DigleData_new, 1), 1, 1),
      delete_node(add_edge(add_edge(TwoLines, 1, 2), 2, 1), 2) }

InitSeq ==
    /\ data \in StartStates
    /\ start = data
    /\ log = <<>>
    /\ undone = 0
    /\ pre = DigleData_new
    /\ last = Call("new", 0, 0)
    /\ graph = <<>>
    /\ order = [tag |-> "unset"]
    /\ NoMMap

Do ==
    \E c \in Calls :
        /\ undone = 0
        /\ Len(log) < MaxOps
        /\ Requires(data, c)
        /\ data' = Apply(data, c)
        /\ log' = Append(log, [call |-> c, effective |-> Effective(data, c)])
        /\ UNCHANGED <<pre, last, start, undone, graph, order, outcome, mmap, pairs, serde>>

Undo ==
    /\ undone < Len(log)
    /\ LET c == log[Len(log) - undone].call
       IN  data' = Apply(data, Call(InverseOp(c.op), c.a, c.b))
    /\ undone' = undone + 1
    /\ UNCHANGED <<pre, last, start, log, graph, order, outcome, mmap, pairs, serde>>

NextSeq == Do \/ Undo

SpecSeq == InitSeq /\ [][NextSeq]_vars

AllUndone == log # <<>> /\ undone = Len(log)

\* C9 as stated: after any sequence of primitives, each called with its stated
\* precondition, the inverses in reverse order give back the DigleData the
\* sequence started from.
ReverseRestores == AllUndone => data = start

\* C9: the same, for sequences in which add_edge is called only for an edge
\* that is absent and unadd_edge only for an edge that is present.
ReverseOfEffectiveRestores ==
    (AllUndone /\ \A i \in DOMAIN log : log[i].effective) => data = start

ReverseOfEffectiveRestoresWitness ==
    /\ AllUndone
    /\ Len(log) >= 3
    /\ \A i \in DOMAIN log : log[i].effective
    /\ \E i \in DOMAIN log : log[i].call.op = "delete_node"
    /\ \E i \in DOMAIN log : log[i].call.op = "add_edge"
    /\ start.edges # <<>>
    /\ data = start

(***************************************************************************)
(* The graph algorithms of graph.rs, run on the adjacency-list Graph of    *)
(* its tests: ids 0..n-1 and, per node, the vector next of out-neighbors   *)
(* in the order they were pushed.                                          *)
(***************************************************************************)
nodes(G) == G.ids

out_neighbors(G, u) == G.next[u]

in_neighbors(G, u) == G.prev[u]

\* The Visit events of the depth-first search: roots in the order of nodes(),
\* the edges of a node in the order of out_neighbors, descending into a
\* neighbor as soon as its edge is found New.
Root(u) == [visit |-> "Root", u |-> u]

EdgeVisit(src, dst, status) == [visit |-> "Edge", src |-> src, dst |-> dst, status |-> status]

Retreat(u) == [visit |-> "Retreat", u |-> u]

RECURSIVE DfsNeighbors(_, _, _, _)
\* The events of the search below u, from the i-th out-neighbor of u on, then
\* the retreat from u; visited is threaded through.
DfsNeighbors(G, u, i, visited) ==
    IF i > Len(out_neighbors(G, u))
    THEN [events |-> <<Retreat(u)>>, visited |-> visited]
    ELSE LET v == out_neighbors(G, u)[i]
         IN  IF v \in visited
             THEN LET rest == DfsNeighbors(G, u, i + 1, visited)
                  IN  [events |-> <<EdgeVisit(u, v, "Repeat")>> \o rest.events,
                       visited |-> rest.visited]
             ELSE LET below == DfsNeighbors(G, v, 1, visited \cup {v})
                      rest == DfsNeighbors(G, u, i + 1, below.visited)
                  IN  [events |-> <<EdgeVisit(u, v, "New")>> \o below.events \o rest.events,
                       visited |-> rest.visited]

RECURSIVE DfsRoots(_, _, _)
DfsRoots(G, i, visited) ==
    IF i > Len(nodes(G))
    THEN <<>>
    ELSE LET u == nodes(G)[i]
         IN  IF u \in visited
             THEN DfsRoots(G, i + 1, visited)
             ELSE LET tree == DfsNeighbors(G, u, 1, visited \cup {u})
                  IN  <<Root(u)>> \o tree.events \o DfsRoots(G, i + 1, tree.visited)

Dfs(G) == DfsRoots(G, 1, {})

None == [tag |-> "None"]

Some(list) == [tag |-> "Some", list |-> list]

Panic == [tag |-> "panic"]

\* Mutant of Reverse: the list is left in the order of the retreats.
Reverse_forgotten(s) == s

Reverse(s) == [i \in 1..Len(s) |-> s[Len(s) + 1 - i]]

RECURSIVE top_sort_loop_keeps_visiting(_, _, _)
\* Mutant of top_sort_loop: a node is not taken out of visiting on its retreat.
top_sort_loop_keeps_visiting(events, visiting, sorted) ==
    IF events = <<>>
    THEN [tag |-> "Some", list |-> [i \in 1..Len(sorted) |-> sorted[Len(sorted) + 1 - i]]]
    ELSE LET visit == Head(events)
         IN  CASE visit.visit = "Edge" ->
                    IF visit.dst \in visiting
                    THEN [tag |-> "None"]
                    ELSE top_sort_loop_keeps_visiting(Tail(events),
                                                      IF visit.status = "New"
                                                      THEN visiting \cup {visit.dst}
                                                      ELSE visiting,
                                                      sorted)
               [] visit.visit = "Retreat" ->
                    top_sort_loop_keeps_visiting(Tail(events), visiting,
                                                 Append(sorted, visit.u))
               [] visit.visit = "Root" ->
                    top_sort_loop_keeps_visiting(Tail(events), visiting \cup {visit.u}, sorted)

RECURSIVE top_sort_loop_forgets_new(_, _, _)
\* Mutant of top_sort_loop: the destination of a New edge is not put into
\* visiting.
top_sort_loop_forgets_new(events, visiting, sorted) ==
    IF events = <<>>
    THEN [tag |-> "Some", list |-> [i \in 1..Len(sorted) |-> sorted[Len(sorted) + 1 - i]]]
    ELSE LET visit == Head(events)
         IN  CASE visit.visit = "Edge" ->
                    IF visit.dst \in visiting
                    THEN [tag |-> "None"]
                    ELSE top_sort_loop_forgets_new(Tail(events), visiting, sorted)
               [] visit.visit = "Retreat" ->
                    IF visit.u \in visiting
                    THEN top_sort_loop_forgets_new(Tail(events), visiting \ {visit.u},
                                                   Append(sorted, visit.u))
                    ELSE [tag |-> "panic"]
               [] visit.visit = "Root" ->
                    IF visiting = {}
                    THEN top_sort_loop_forgets_new(Tail(events), {visit.u}, sorted)
                    ELSE [tag |-> "panic"]

RECURSIVE top_sort_loop(_, _, _)
\* for visit in self.dfs() { match visit { ... } }
top_sort_loop(events, visiting, sorted) ==
    IF events = <<>>
    THEN Some(Reverse(sorted))
    ELSE LET visit == Head(events)
         IN  CASE visit.visit = "Edge" ->
                    IF visit.dst \in visiting
                    THEN None
                    ELSE top_sort_loop(Tail(events),
                                       IF visit.status = "New"
                                       THEN visiting \cup {visit.dst}
                                       ELSE visiting,
                                       sorted)
               [] visit.visit = "Retreat" ->
                    IF visit.u \in visiting
                    THEN top_sort_loop(Tail(events), visiting \ {visit.u},
                                       Append(sorted, visit.u))
                    ELSE Panic
               [] visit.visit = "Root" ->
                    IF visiting = {}
                    THEN top_sort_loop(Tail(events), {visit.u}, sorted)
                    ELSE Panic

top_sort(G) == top_sort_loop(Dfs(G), {}, <<>>)

\* Itertools::tuples: the items in groups of two, (s[1], s[2]), (s[3], s[4]),
\* ...; an item left over at the end is dropped.
tuples(s) == [i \in 1..(Len(s) \div 2) |-> <<s[2 * i - 1], s[2 * i]>>]

linear_order(G) ==
    LET top == top_sort(G)
    IN  IF top.tag = "Some"
        THEN IF \E i \in DOMAIN tuples(top.list) :
                    LET u == tuples(top.list)[i][1]
                        v == tuples(top.list)[i][2]
                    IN  \A j \in DOMAIN out_neighbors(G, u) : out_neighbors(G, u)[j] # v
             THEN None
             ELSE top
        ELSE top

\* tests::graph: n nodes without edges, then one push per edge "u-v".
EmptyGraph(n) ==
    [ids |-> [i \in 1..n |-> i - 1],
     next |-> [u \in 0..(n - 1) |-> <<>>],
     prev |-> [u \in 0..(n - 1) |-> <<>>]]

NumEdges(G, n) ==
    LET RECURSIVE Sum(_)
        Sum(u) == IF u < 0 THEN 0 ELSE Len(G.next[u]) + Sum(u - 1)
    IN  Sum(n - 1)

InitGraph ==
    /\ \E n \in 1..MaxNodes : graph = EmptyGraph(n)
    /\ order = [tag |-> "unset"]
    /\ NoMMap
    /\ data = DigleData_new
    /\ pre = DigleData_new
    /\ last = Call("new", 0, 0)
    /\ start = DigleData_new
    /\ log = <<>>
    /\ undone = 0

PushEdge ==
    \E u \in DOMAIN graph.next, v \in DOMAIN graph.next :
        /\ order.tag = "unset"
        /\ NumEdges(graph, Len(graph.ids)) < MaxEdges
        /\ graph' = [graph EXCEPT !.next[u] = Append(@, v), !.prev[v] = Append(@, u)]
        /\ UNCHANGED <<order, data, pre, last, start, log, undone, outcome, mmap, pairs, serde>>

RunTopSort ==
    /\ order.tag = "unset"
    /\ order' = [tag |-> "top_sort", result |-> top_sort(graph)]
    /\ UNCHANGED <<graph, data, pre, last, start, log, undone, outcome, mmap, pairs, serde>>

RunLinearOrder ==
    /\ order.tag = "unset"
    /\ order' = [tag |-> "linear_order", result |-> linear_order(graph)]
    /\ UNCHANGED <<graph, data, pre, last, start, log, undone, outcome, mmap, pairs, serde>>

NextGraph == PushEdge \/ RunTopSort \/ RunLinearOrder

SpecGraph == InitGraph /\ [][NextGraph]_vars

(***************************************************************************)
(* Properties of the graph algorithms.                                     *)
(***************************************************************************)
NodeSet(G) == Range(G.ids)

HasDirectEdge(G, u, v) == v \in Range(G.next[u])

RECURSIVE ReachableWithin(_, _, _)
\* The nodes reached from the set S by at most k further edges.
ReachableWithin(G, S, k) ==
    IF k = 0
    THEN S
    ELSE ReachableWithin(G, S \cup UNION {Range(G.next[u]) : u \in S}, k - 1)

Acyclic(G) ==
    \A u \in NodeSet(G) : u \notin ReachableWithin(G, Range(G.next[u]), Len(G.ids))

\* C3: linear_order(G) is Some(list) iff G is acyclic and every consecutive
\* pair (list[i], list[i+1]) of its topological sort has a direct edge; then
\* the list is the one top_sort returns, and otherwise the result is None.
LinearOrderIffChain ==
    order.tag = "linear_order" =>
        LET top == top_sort(graph)
            chain == /\ Acyclic(graph)
                     /\ top.tag = "Some"
                     /\ \A i \in 1..(Len(top.list) - 1) :
                            HasDirectEdge(graph, top.list[i], top.list[i + 1])
        IN  order.result = IF chain THEN top ELSE None

(***************************************************************************)
(* The digle under calls with arbitrary arguments: only the assert!()s of  *)
(* the code stand between a call and its effect.  A failed assertion       *)
(* aborts the program.                                                     *)
(***************************************************************************)
\* Digle::is_live: asserts that the line is known.
is_live_pre(d, line) == line \in d.lines \/ line \in d.deleted_lines

is_live(d, line) == line \in d.lines

\* A call whose assertions are asserts: it runs to the DigleData d and the
\* return value v, or panics before it has changed anything.
Attempt(op, a, b, asserts, d, v) ==
    /\ outcome # Panicked
    /\ pre' = data
    /\ last' = Call(op, a, b)
    /\ data' = IF asserts THEN d ELSE data
    /\ outcome' = IF asserts THEN Returned(v) ELSE Panicked
    /\ UNCHANGED <<start, log, undone, graph, order, mmap, pairs, serde>>

\* add_node has no assertion.
CallAddNode ==
    \E id \in LineId :
        Attempt("add_node", id, id, TRUE, add_node(data, id), <<>>)

CallUnaddNode ==
    \E id \in LineId :
        Attempt("unadd_node", id, id, id \in data.lines, unadd_node(data, id), <<>>)

CallDeleteNode ==
    \E id \in LineId :
        Attempt("delete_node", id, id, delete_node_pre(data, id), delete_node(data, id), <<>>)

CallUndeleteNode ==
    \E id \in LineId :
        Attempt("undelete_node", id, id, undelete_node_pre(data, id),
                undelete_node(data, id), <<>>)

CallAddEdge ==
    \E from \in LineId, to \in LineId :
        Attempt("add_edge", from, to, edge_pre(data, from, to),
                add_edge(data, from, to), <<>>)

CallUnaddEdge ==
    \E from \in LineId, to \in LineId :
        Attempt("unadd_edge", from, to, edge_pre(data, from, to),
                unadd_edge(data, from, to), <<>>)

CallIsLive ==
    \E line \in LineId :
        Attempt("is_live", line, line, is_live_pre(data, line), data, is_live(data, line))

InitCalls == Init

NextCalls ==
    \/ CallAddNode
    \/ CallUnaddNode
    \/ CallDeleteNode
    \/ CallUndeleteNode
    \/ CallAddEdge
    \/ CallUnaddEdge
    \/ CallIsLive

SpecCalls == InitCalls /\ [][NextCalls]_vars

\* C11: add_node(id) with id already in lines or in deleted_lines fails as an
\* assertion and modifies no field; with an unknown id it inserts id into
\* lines and changes nothing else.
AddNodeRejectsKnown ==
    last.op = "add_node" =>
        IF line_exists(pre, last.a)
        THEN outcome = Panicked /\ data = pre
        ELSE outcome.tag = "returned" /\ data = [pre EXCEPT !.lines = @ \cup {last.a}]

\* C12: delete_node(id) with id not in lines, undelete_node(id) with id not in
\* deleted_lines, unadd_node(id) with id tombstoned or unknown, add_edge(u, v)
\* and unadd_edge(u, v) with u or v unknown, and is_live(u) with u unknown
\* abort on an assertion before any field of the DigleData is modified.
Violates(d, c) ==
    CASE c.op = "delete_node" -> c.a \notin d.lines
      [] c.op = "undelete_node" -> c.a \notin d.deleted_lines
      [] c.op = "unadd_node" -> c.a \in d.deleted_lines \/ ~line_exists(d, c.a)
      [] c.op \in {"add_edge", "unadd_edge"} -> ~line_exists(d, c.a) \/ ~line_exists(d, c.b)
      [] c.op = "is_live" -> ~line_exists(d, c.a)
      [] OTHER -> FALSE

ViolationsAbort ==
    Violates(pre, last) => (outcome = Panicked /\ data = pre)

(***************************************************************************)
(* Properties of top_sort.                                                 *)
(***************************************************************************)
IndexOf(list, u) == CHOOSE i \in DOMAIN list : list[i] = u

Roots(G) == {u \in NodeSet(G) : \A w \in NodeSet(G) : ~HasDirectEdge(G, w, u)}

\* C13: if top_sort(G) returns Some(list), the list contains every node of
\* G.nodes() exactly once and, for every edge u -> v of G, u comes before v.
TopSortIsSorted ==
    (order.tag = "top_sort" /\ order.result.tag = "Some") =>
        LET list == order.result.list
        IN  /\ Len(list) = Len(nodes(graph))
            /\ Range(list) = NodeSet(graph)
            /\ \A u \in NodeSet(graph), v \in NodeSet(graph) :
                    HasDirectEdge(graph, u, v) => IndexOf(list, u) < IndexOf(list, v)

TopSortIsSortedWitness ==
    /\ order.tag = "top_sort"
    /\ order.result.tag = "Some"
    /\ Len(nodes(graph)) >= 3
    /\ Cardinality(Roots(graph)) >= 2
    /\ NumEdges(graph, Len(graph.ids)) >= 3

\* C14: top_sort(G) returns None iff G contains a directed cycle (a self-loop
\* included); on every acyclic graph it returns Some.
TopSortNoneIffCycle ==
    order.tag = "top_sort" =>
        /\ order.result = None <=> ~Acyclic(graph)
        /\ Acyclic(graph) => order.result.tag = "Some"

TopSortNoneIffCycleWitness ==
    /\ order.tag = "top_sort"
    /\ order.result = None
    /\ \A u \in NodeSet(graph) : ~HasDirectEdge(graph, u, u)
    /\ Roots(graph) # {}

(***************************************************************************)
(* MMap<K, V> on its own, with integer keys and values as in its tests.    *)
(* pairs is the set of (k, v) pairs the calls made so far amount to when   *)
(* insert is read as adding a pair, remove as deleting one and remove_all  *)
(* as deleting every pair of a key.                                        *)
(***************************************************************************)
Keys == 1..NumKeys

Vals == 1..NumVals

\* BTreeSet::iter / BTreeMap::iter over integers: ascending.
Ascending(s) ==
    [i \in 1..Cardinality(s) |->
        CHOOSE x \in s : Cardinality({y \in s : y < x}) = i - 1]

MMap_get_int(m, key) ==
    Ascending(IF key \in DOMAIN m THEN m[key] ELSE {})

\* Mutant of MMap_remove_ret: true whenever the key is bound.
MMap_remove_ret_key_found(m, key, val) == key \in DOMAIN m

\* The value remove(key, val) returns: let ret = set.remove(val), or false.
MMap_remove_ret(m, key, val) ==
    IF key \in DOMAIN m THEN val \in m[key] ELSE FALSE

\* Mutant of MMap_remove_all: the key is bound to the empty set.
MMap_remove_all_leaves_empty(m, key) ==
    [k \in DOMAIN m |-> IF k = key THEN {} ELSE m[k]]

MMap_remove_all(m, key) ==
    [k \in DOMAIN m \ {key} |-> m[k]]

RECURSIVE flat_map(_, _, _)
\* self.map.iter().flat_map(|(k, vs)| vs.iter().map(move |v| (k, v))), from
\* the i-th key of keys on.
flat_map(m, keys, i) ==
    IF i > Len(keys)
    THEN <<>>
    ELSE LET k == keys[i]
             vs == Ascending(m[k])
         IN  [j \in 1..Len(vs) |-> <<k, vs[j]>>] \o flat_map(m, keys, i + 1)

MMap_iter_int(m) == flat_map(m, Ascending(DOMAIN m), 1)

\* Mutant of serialize: only the first value of every key goes out.
serialize_first_value_only(m) ==
    LET keys == Ascending(DOMAIN m)
    IN  [i \in 1..Len(keys) |-> <<keys[i], Ascending(m[keys[i]])[1]>>]

\* Serialize: the sequence of the elements of iter().
serialize(m) == MMap_iter_int(m)

InitMMap ==
    /\ mmap = MMap_new
    /\ pairs = {}
    /\ pre = MMap_new
    /\ last = Call("new", 0, 0)
    /\ outcome = NotCalled
    /\ serde = [phase |-> "idle"]
    /\ data = DigleData_new
    /\ start = DigleData_new
    /\ log = <<>>
    /\ undone = 0
    /\ graph = <<>>
    /\ order = [tag |-> "unset"]

MMapCall(op, k, v, m, ret, p) ==
    /\ serde.phase = "idle"
    /\ pre' = mmap
    /\ last' = Call(op, k, v)
    /\ mmap' = m
    /\ outcome' = Returned(ret)
    /\ pairs' = p
    /\ UNCHANGED <<data, start, log, undone, graph, order, serde>>

Insert ==
    \E k \in Keys, v \in Vals :
        MMapCall("insert", k, v, MMap_insert(mmap, k, v), <<>>, pairs \cup {<<k, v>>})

Remove ==
    \E k \in Keys, v \in Vals :
        MMapCall("remove", k, v, MMap_remove(mmap, k, v), MMap_remove_ret(mmap, k, v),
                 pairs \ {<<k, v>>})

RemoveAll ==
    \E k \in Keys :
        MMapCall("remove_all", k, k, MMap_remove_all(mmap, k), <<>>,
                 {p \in pairs : p[1] # k})

\* Serialize for MMap: the pairs of iter() go out as a sequence.
Serialize ==
    /\ serde.phase = "idle"
    /\ serde' = [phase |-> "wire", wire |-> serialize(mmap),
                 pending |-> DOMAIN serialize(mmap), shuffled |-> FALSE, ret |-> MMap_new]
    /\ pre' = mmap
    /\ last' = Call("serialize", 0, 0)
    /\ outcome' = NotCalled
    /\ UNCHANGED <<mmap, pairs, data, start, log, undone, graph, order>>

\* MMapVisitor::visit_seq: one access.next_element() and ret.insert(key, val);
\* the pairs of the sequence may come in any order.
VisitSeq ==
    /\ serde.phase = "wire"
    /\ \E i \in serde.pending :
        serde' = [serde EXCEPT
                    !.pending = @ \ {i},
                    !.shuffled = @ \/ (\E j \in serde.pending : j < i),
                    !.ret = MMap_insert(@, serde.wire[i][1], serde.wire[i][2])]
    /\ UNCHANGED <<mmap, pairs, pre, last, outcome, data, start, log, undone, graph, order>>

NextMMap == Insert \/ Remove \/ RemoveAll \/ Serialize \/ VisitSeq

SpecMMap == InitMMap /\ [][NextMMap]_vars

(***************************************************************************)
(* Properties of the multimap.                                             *)
(***************************************************************************)
ValuesOf(P, k) == {p[2] : p \in {q \in P : q[1] = k}}

\* (k1, v1) before (k2, v2) in the lexicographic order of pairs.
PairBefore(p, q) == p[1] < q[1] \/ (p[1] = q[1] /\ p[2] < q[2])

\* The map that binds every key of the pairs P to its values, and no other key.
FromPairs(P) == [k \in {p[1] : p \in P} |-> ValuesOf(P, k)]

\* C15: no key of the underlying map is bound to the empty set: a key is
\* present iff at least one value is associated with it.
NoEmptySets ==
    /\ \A k \in DOMAIN mmap : mmap[k] # {}
    /\ \A k \in Keys : k \in DOMAIN mmap <=> ValuesOf(pairs, k) # {}

NoEmptySetsWitness ==
    /\ last.op = "remove"
    /\ outcome = Returned(TRUE)
    /\ last.a \in DOMAIN pre
    /\ last.a \notin DOMAIN mmap
    /\ mmap # MMap_new

\* C16: iter() yields exactly the pairs of the reference set, each once and in
\* ascending (k, v) order; contains(k, v) is true exactly for those pairs;
\* remove(k, v) returns true exactly when (k, v) was in the set before the
\* call and leaves the map unchanged when it returns false.
SetOfPairs ==
    LET it == MMap_iter_int(mmap)
    IN  /\ Range(it) = pairs
        /\ Len(it) = Cardinality(pairs)
        /\ \A i \in DOMAIN it, j \in DOMAIN it : i < j => PairBefore(it[i], it[j])
        /\ \A k \in Keys, v \in Vals : MMap_contains(mmap, k, v) <=> <<k, v>> \in pairs
        /\ last.op = "remove" =>
                /\ outcome.value <=> <<last.a, last.b>> \in Range(MMap_iter_int(pre))
                /\ ~outcome.value => mmap = pre

SetOfPairsWitness ==
    /\ last.op = "remove"
    /\ outcome = Returned(FALSE)
    /\ last.a \in DOMAIN mmap
    /\ Cardinality(DOMAIN mmap) >= 2
    /\ Cardinality(pairs) >= 3

\* C17: get(k) yields each value associated with k exactly once and in
\* ascending order, whatever the order and number of the inserts (insert of
\* a pair already present changes nothing); for a key without values it
\* yields nothing.
GetIsSorted ==
    /\ \A k \in Keys :
        LET g == MMap_get_int(mmap, k)
        IN  /\ Range(g) = ValuesOf(pairs, k)
            /\ \A i \in DOMAIN g, j \in DOMAIN g : i < j => g[i] < g[j]
            /\ ValuesOf(pairs, k) = {} => g = <<>>
    /\ (last.op = "insert" /\ MMap_contains(pre, last.a, last.b)) => mmap = pre

\* The latest insert put a value in front of a larger one inserted before it.
GetIsSortedWitness ==
    /\ last.op = "insert"
    /\ ~MMap_contains(pre, last.a, last.b)
    /\ Len(MMap_get_int(mmap, last.a)) >= 2
    /\ MMap_get_int(mmap, last.a)[1] = last.b

\* C18: rebuilding an MMap by repeated insert from the sequence of its pairs
\* gives an MMap equal to the original, in whatever order the pairs come.
RoundTrip ==
    (serde.phase = "wire" /\ serde.pending = {}) => serde.ret = mmap

RoundTripWitness ==
    /\ serde.phase = "wire"
    /\ serde.pending = {}
    /\ serde.shuffled
    /\ Len(serde.wire) >= 3
    /\ Cardinality(DOMAIN mmap) >= 2
    /\ serde.ret = mmap

filter(s, P) == SelectSeq(s, LAMBDA n : n \in P)

NodeFiltered_nodes(G, P) == filter(nodes(G), P)

\* Mutant of NodeFiltered_out_neighbors: the neighbors are passed on unfiltered.
NodeFiltered_out_neighbors_unfiltered(G, P, u) == out_neighbors(G, u)

NodeFiltered_out_neighbors(G, P, u) == filter(out_neighbors(G, u), P)

NodeFiltered_in_neighbors(G, P, u) == filter(in_neighbors(G, u), P)

\* The view as a graph of its own, for the algorithms of GraphRef.
NodeFiltered(G, P) ==
    [ids |-> NodeFiltered_nodes(G, P),
     next |-> [u \in DOMAIN G.next |-> NodeFiltered_out_neighbors(G, P, u)],
     prev |-> [u \in DOMAIN G.prev |-> NodeFiltered_in_neighbors(G, P, u)]]

PushFilteredEdge ==
    \E u \in DOMAIN graph.next, v \in DOMAIN graph.next :
        /\ order.tag = "unset"
        /\ NumEdges(graph, Len(graph.ids)) < MaxFilteredEdges
        /\ graph' = [graph EXCEPT !.next[u] = Append(@, v), !.prev[v] = Append(@, u)]
        /\ UNCHANGED <<order, data, pre, last, start, log, undone, outcome, mmap, pairs, serde>>

\* top_sort and linear_order on NodeFiltered { predicate, graph, .. }.
RunFiltered ==
    \E P \in SUBSET Range(graph.ids) :
        /\ order.tag = "unset"
        /\ order' = [tag |-> "filtered", predicate |-> P,
                     top_sort |-> top_sort(NodeFiltered(graph, P)),
                     linear_order |-> linear_order(NodeFiltered(graph, P))]
        /\ UNCHANGED <<graph, data, pre, last, start, log, undone, outcome, mmap, pairs, serde>>

NextFiltered == PushFilteredEdge \/ RunFiltered

SpecFiltered == InitGraph /\ [][NextFiltered]_vars

\* f is s with the items outside P left out: the same items, in the order of s.
IsRestriction(f, s, P) ==
    LET I == {i \in DOMAIN s : s[i] \in P}
    IN  /\ Len(f) = Cardinality(I)
        /\ \A j \in DOMAIN f :
                f[j] = s[CHOOSE i \in I : Cardinality({h \in I : h < i}) = j - 1]

\* C20: the NodeFiltered view yields as nodes() exactly the nodes of G that
\* satisfy p and as out_neighbors(u) and in_neighbors(u) exactly the out- and
\* in-neighbors of u in G that satisfy p, in G's order; top_sort and
\* linear_order run on the view emit no node that fails p.
NodeFilteredView ==
    order.tag = "filtered" =>
        LET P == order.predicate
            V == NodeFiltered(graph, P)
        IN  /\ IsRestriction(nodes(V), nodes(graph), P)
            /\ \A u \in NodeSet(graph) :
                    /\ IsRestriction(out_neighbors(V, u), out_neighbors(graph, u), P)
                    /\ IsRestriction(in_neighbors(V, u), in_neighbors(graph, u), P)
            /\ order.top_sort.tag = "Some" => Range(order.top_sort.list) = NodeSet(graph) \cap P
            /\ order.top_sort.tag # "panic"
            /\ order.linear_order.tag = "Some" => Range(order.linear_order.list) \subseteq P

\* A node that satisfies p has a neighbor that fails it and one that does not.
NodeFilteredViewWitness ==
    /\ order.tag = "filtered"
    /\ order.top_sort.tag = "Some"
    /\ \E u \in order.predicate :
            /\ \E v \in NodeSet(graph) \ order.predicate : HasDirectEdge(graph, u, v)
            /\ \E v \in order.predicate : HasDirectEdge(graph, u, v)
            /\ \E v \in NodeSet(graph) \ order.predicate : HasDirectEdge(graph, v, u)

(***************************************************************************)
(* The assertions of top_sort.                                             *)
(***************************************************************************)
\* The Root events of a stream of visits.
RootEvents(events) == {i \in DOMAIN events : events[i].visit = "Root"}

\* Some node has the same out-neighbor twice.
HasRepeatedEdge(G) ==
    \E u \in NodeSet(G) : \E i, j \in DOMAIN out_neighbors(G, u) :
        i < j /\ out_neighbors(G, u)[i] = out_neighbors(G, u)[j]

\* C21: on every graph, with cycles, self-loops, repeated edges or several
\* DFS trees, top_sort passes assert!(visiting.is_empty()) at every Root and
\* assert!(removed) at every Retreat it handles: it returns Some(list) or
\* None, and so does linear_order, which calls it.
TopSortNeverPanics ==
    order.tag \in {"top_sort", "linear_order"} => order.result.tag \in {"Some", "None"}

\* top_sort has handled a whole stream with several DFS trees, a New edge and
\* a repeated edge.
TopSortNeverPanicsWitness ==
    /\ order.tag = "top_sort"
    /\ order.result.tag = "Some"
    /\ Cardinality(RootEvents(Dfs(graph))) >= 2
    /\ HasRepeatedEdge(graph)
    /\ \E i \in DOMAIN Dfs(graph) :
            Dfs(graph)[i].visit = "Edge" /\ Dfs(graph)[i].status = "New"

(***************************************************************************)
(* What delete_node and undelete_node change, and what they leave alone.   *)
(***************************************************************************)
\* The entries of a multimap of edges, each with the key it is stored under.
Entries(m) == UNION {{<<s, x>> : x \in m[s]} : s \in DOMAIN m}

\* The (key, dest) pairs of a multimap of edges, flags left out.
EdgePairs(m) == {<<p[1], p[2].dest>> : p \in Entries(m)}

\* m1 is m0 with the flag `deleted` on the entries whose dest is id, and the
\* same pairs and the same entries otherwise.
Flagged(m0, m1, id, deleted) ==
    /\ EdgePairs(m1) = EdgePairs(m0)
    /\ Cardinality(Entries(m1)) = Cardinality(Entries(m0))
    /\ \A p \in Entries(m1) : p[2].dest = id => p[2].deleted = deleted
    /\ {p \in Entries(m1) : p[2].dest # id} = {p \in Entries(m0) : p[2].dest # id}

\* C22: delete_node(id) moves id from lines to deleted_lines and sets the
\* deleted flag on exactly the entries of edges and back_edges whose dest is
\* id; the (source, dest) pairs of both maps, the liveness of every other line
\* and the flags of the entries with another dest stay as they were.
\* undelete_node(id) does the same the other way round.
DeleteNodeFrame ==
    /\ last.op = "delete_node" =>
            /\ data.lines = pre.lines \ {last.a}
            /\ data.deleted_lines = pre.deleted_lines \cup {last.a}
            /\ last.a \in pre.lines /\ last.a \notin pre.deleted_lines
            /\ Flagged(pre.edges, data.edges, last.a, TRUE)
            /\ Flagged(pre.back_edges, data.back_edges, last.a, TRUE)
    /\ last.op = "undelete_node" =>
            /\ data.deleted_lines = pre.deleted_lines \ {last.a}
            /\ data.lines = pre.lines \cup {last.a}
            /\ last.a \in pre.deleted_lines /\ last.a \notin pre.lines
            /\ Flagged(pre.edges, data.edges, last.a, FALSE)
            /\ Flagged(pre.back_edges, data.back_edges, last.a, FALSE)

\* The deleted node had an in-neighbor and an out-neighbor other than itself,
\* and an edge that does not point to it was there as well.
DeleteNodeFrameWitness ==
    /\ last.op = "delete_node"
    /\ \E o \in LineId \ {last.a} :
            /\ <<o, last.a>> \in EdgePairs(pre.edges)
            /\ <<last.a, o>> \in EdgePairs(pre.edges)
            /\ <<o, o>> \in EdgePairs(pre.edges)
    /\ data # pre

====
